---- MODULE Spec2Model ----
(***************************************************************************)
(* A model of the habit tracker: the storage layer declared by the         *)
(* migration (tables habits and habit_completions, their constraints and   *)
(* row-level security policies) and the Dashboard and CreateHabit pages    *)
(* that read and write it from any number of browser tabs.                 *)
(*                                                                         *)
(* Time is measured in half days: an instant t is t half days after the    *)
(* epoch (a UTC midnight), a calendar date is a day number, and day 0 is   *)
(* a Sunday.  A browser's time zone is its offset from UTC in the same     *)
(* unit.  Daylight saving changes are not modelled.                        *)
(***************************************************************************)
EXTENDS Integers, Sequences, FiniteSets, TLC

VARIABLES
    now,               \* the clock: what new Date() returns
    habits,            \* table public.habits
    habit_completions, \* table public.habit_completions
    nextHabitId,       \* gen_random_uuid() for habits: the next fresh id
    nextCompletionId,  \* gen_random_uuid() for habit_completions
    rawOps,            \* number of direct storage requests made so far
    tz,                \* per Dashboard tab: the browser's UTC offset
    habitsState,       \* per Dashboard tab: useState `habits`
    loading,           \* per Dashboard tab: useState `loading`
    completingHabit,   \* per Dashboard tab: useState `completingHabit`
    fetchPending,      \* per Dashboard tab: a fetchHabits() is in flight
    view,              \* per Dashboard tab: what the last render computed
    toast,             \* per Dashboard tab: title of the last toast
    lastError,         \* per Dashboard tab: the error the last insert returned
    calls,             \* completeHabit invocations that reached the insert
    nextCall,          \* the next fresh invocation id
    formPending,       \* per CreateHabit tab: the insert awaited by onSubmit
    formError,         \* per CreateHabit tab: the error its last request returned
    follows,           \* table public.follows
    nextFollowId,      \* gen_random_uuid() for follows
    followCalls,       \* followUser invocations that reached the insert
    nextFollowCall,    \* the next fresh followUser invocation id
    feedFollowing,     \* per Friends tab: followingIds of the fetch in flight
    friendsActivity,   \* per Friends tab: useState `friendsActivity`
    friendsToast       \* per Friends tab: title of the last toast

vars == <<now, habits, habit_completions, nextHabitId, nextCompletionId, rawOps,
          tz, habitsState, loading, completingHabit, fetchPending, view, toast,
          lastError, calls, nextCall, formPending, formError, follows,
          nextFollowId, followCalls, nextFollowCall, feedFollowing,
          friendsActivity, friendsToast>>

dbVars == <<habits, habit_completions, nextHabitId, nextCompletionId, rawOps>>
dashVars == <<habitsState, loading, completingHabit, fetchPending, view, toast,
              lastError, calls, nextCall>>
formVars == <<formPending, formError>>
friendVars == <<follows, nextFollowId, followCalls, nextFollowCall,
                feedFollowing, friendsActivity, friendsToast>>

----------------------------------------------------------------------------
(* Bounds of the model *)

MaxNow == 2          \* the clock runs over 0..MaxNow
MaxHabits == 1       \* habits ever created
MaxCalls == 2        \* completeHabit invocations that reach the insert
MaxRawOps == 1       \* direct storage inserts
MaxEvalDate == 8     \* the evaluator is given completion dates in 0..MaxEvalDate
MaxFollowCalls == 2  \* followUser invocations that reach the insert

(* Program constants *)

DayMs == 2           \* 86400000 ms, one day, in the model's unit
WeekLen == 7         \* days per week
FeedLimit == 50      \* rows of the activity feed

Users == {"u1", "u2"}
Clients == {"c1", "c2"}
Forms == {"f1", "f2"}
ClientUser == [c \in Clients |-> "u1"]
FormUser == [f \in Forms |-> "u1"]
Names == {"run", "read"}
Frequencies == {"daily", "weekly"}
TzOffsets == {-1, 0, 1}
ClientTz == [c \in Clients |-> IF c = "c1" THEN 0 ELSE -1]
Dates == 0 .. (MaxNow \div DayMs) + 1
LedgerForms == {"f1"}      \* the forms open beside the Dashboards
LedgerNames == {"run"}     \* the names typed into them
NoHabit == 0         \* the null of completingHabit: no habit id
NoForm == [name |-> "", frequency |-> ""]   \* no submission awaited
FriendTabs == {"t1", "t2"}
TabUser == [t \in FriendTabs |-> "u1"]

----------------------------------------------------------------------------
(* Dates, as the JavaScript Date methods and date-fns compute them *)

\* new Date().toISOString().split('T')[0]: the UTC calendar date of instant t
UTCDate(t) == t \div DayMs

\* new Date("YYYY-MM-DD"): UTC midnight of that date
ParseDate(d) == d * DayMs

\* the local calendar day that holds instant t in a browser at offset off
LocalDay(t, off) == (t + off) \div DayMs

\* date.setHours(0, 0, 0, 0): local midnight of the local day that holds t
SetHoursZero(t, off) == LocalDay(t, off) * DayMs - off

\* a step back that stays on the same day
PrevDay_Stuck(t) == t

\* date.setDate(date.getDate() - 1)
PrevDay(t) == t - DayMs

\* startOfWeek(date): local midnight of the Sunday on or before the local day
StartOfWeek(t, off) ==
    LET day == LocalDay(t, off)
    IN  (day - (day % WeekLen)) * DayMs - off

\* endOfWeek(date): the last instant of the Saturday of that week
EndOfWeek(t, off) == StartOfWeek(t, off) + WeekLen * DayMs - 1

----------------------------------------------------------------------------
(* The Dashboard's evaluator: getStreak, getCompletionRate and             *)
(* isHabitCompletedToday.  A habit is a row of the tab's `habits` state:   *)
(* [id, frequency, created_at, habit_completions], the last a set of       *)
(* [id, completion_date] rows.  t is the value of new Date() and off the   *)
(* browser's UTC offset.                                                   *)

\* habit.habit_completions.map(c => new Date(c.completion_date))
\*      .sort((a, b) => b.getTime() - a.getTime())
RECURSIVE SortedCompletions(_)
SortedCompletions(rows) ==
    IF rows = {} THEN << >>
    ELSE LET latest == CHOOSE r \in rows :
                           \A q \in rows : q.completion_date <= r.completion_date
         IN  <<ParseDate(latest.completion_date)>>
                 \o SortedCompletions(rows \ {latest})

\* the daily branch of the loop of getStreak, from its i-th iteration on
RECURSIVE DailyStreakLoop(_, _, _, _, _)
DailyStreakLoop(completions, i, streak, currentDate, off) ==
    IF i > Len(completions) THEN streak
    ELSE LET completion == SetHoursZero(completions[i], off) IN
         IF completion = currentDate
         THEN DailyStreakLoop(completions, i + 1, streak + 1,
                              PrevDay(currentDate), off)
         ELSE IF completion = currentDate + DayMs
         THEN IF streak = 0
              THEN IF completion = PrevDay(currentDate)
                   THEN DailyStreakLoop(completions, i + 1, streak + 1,
                                        PrevDay(PrevDay(currentDate)), off)
                   ELSE DailyStreakLoop(completions, i + 1, streak,
                                        PrevDay(currentDate), off)
              ELSE DailyStreakLoop(completions, i + 1, streak, currentDate, off)
         ELSE streak

\* a streak counted from one, without the early return for an empty list
getStreak_StartsAtOne(habit, t, off) ==
    LET completions == SortedCompletions(habit.habit_completions)
        currentDate == SetHoursZero(t, off)
    IN  IF completions = << >> THEN 1
        ELSE IF habit.frequency = "daily"
        THEN DailyStreakLoop(completions, 1, 1, currentDate, off)
        ELSE Len(completions)

getStreak(habit, t, off) ==
    IF habit.habit_completions = {} THEN 0
    ELSE LET completions == SortedCompletions(habit.habit_completions)
             currentDate == SetHoursZero(t, off)
         IN  IF habit.frequency = "daily"
             THEN DailyStreakLoop(completions, 1, 0, currentDate, off)
             ELSE Len(completions)

\* Math.ceil(a / b) for b > 0
CeilDiv(a, b) == -((-a) \div b)

\* the pairs <<n, m>> with m < 80 and n <= 50 for which (n / m) * 100, computed
\* in IEEE-754 doubles, falls just below a value that is exactly k + 0.5:
\* (23 / 40) * 100 is 57.49999999999999 and (41 / 40) * 100 is
\* 102.49999999999999
RoundsBelowHalf == {<<23, 40>>, <<41, 40>>}

\* Math.round((n / m) * 100) for 0 <= n <= 50 and 0 < m < 80: the quotient
\* and the product are doubles, and Math.round rounds a half upward
RoundPercent(n, m) ==
    IF <<n, m>> \in RoundsBelowHalf
    THEN ((200 * n + m) \div (2 * m)) - 1
    ELSE (200 * n + m) \div (2 * m)

Min(a, b) == IF a <= b THEN a ELSE b
Max(a, b) == IF a >= b THEN a ELSE b

\* a rate that is not capped
getCompletionRate_Uncapped(habit, t) ==
    LET daysSinceCreated == CeilDiv(t - habit.created_at, DayMs)
        completions == Cardinality(habit.habit_completions)
        expectedCompletions == IF habit.frequency = "daily"
                               THEN daysSinceCreated
                               ELSE CeilDiv(daysSinceCreated, WeekLen)
    IN  RoundPercent(completions, Max(expectedCompletions, 1))

getCompletionRate(habit, t) ==
    LET daysSinceCreated == CeilDiv(t - habit.created_at, DayMs)
        completions == Cardinality(habit.habit_completions)
        expectedCompletions == IF habit.frequency = "daily"
                               THEN daysSinceCreated
                               ELSE CeilDiv(daysSinceCreated, WeekLen)
    IN  Min(100, RoundPercent(completions, Max(expectedCompletions, 1)))

\* completionDate >= weekStart && completionDate <= weekEnd
InCurrentWeek(completion_date, t, off) ==
    LET completionDate == ParseDate(completion_date)
    IN  /\ completionDate >= StartOfWeek(t, off)
        /\ completionDate <= EndOfWeek(t, off)

isHabitCompletedToday(habit, t, off) ==
    LET today == UTCDate(t)
    IN  IF habit.frequency = "daily"
        THEN \E c \in habit.habit_completions : c.completion_date = today
        ELSE \E c \in habit.habit_completions :
                 InCurrentWeek(c.completion_date, t, off)

\* one card of the Dashboard's render
RenderCard(habit, t, off) ==
    [id |-> habit.id,
     frequency |-> habit.frequency,
     streak |-> getStreak(habit, t, off),
     completionRate |-> getCompletionRate(habit, t),
     isCompleted |-> isHabitCompletedToday(habit, t, off)]

\* habits.map(...) of the Dashboard's render
Render(habitRows, t, off) == {RenderCard(habit, t, off) : habit \in habitRows}

\* the already-completed check at the head of completeHabit
IsCompletedCheck(habitRows, habitId, frequency, t, off) ==
    LET today == UTCDate(t)
        found == {h \in habitRows : h.id = habitId}
    IN  IF frequency = "daily"
        THEN \E habit \in found : \E c \in habit.habit_completions :
                 c.completion_date = today
        ELSE \E habit \in found : \E c \in habit.habit_completions :
                 InCurrentWeek(c.completion_date, t, off)

----------------------------------------------------------------------------
(* The storage layer: constraints and row-level security of the migration. *)
(* uid is auth.uid(), the authenticated user of the request.  An error is  *)
(* the SQLSTATE the request returns, or "none".                            *)

\* policy "Users can create their own completions"
CompletionInsertPolicy(uid, row) == uid = row.user_id

\* no unique index on habit_completions
UniqueDailyViolated_NoIndex(row) == FALSE

\* a unique index that also covers user_id
UniqueDailyViolated_PerUser(row) ==
    \E r \in habit_completions :
        /\ r.habit_id = row.habit_id
        /\ r.user_id = row.user_id
        /\ r.completion_date = row.completion_date

\* idx_habit_completions_unique_daily: the row's key is taken
UniqueDailyViolated(row) ==
    \E r \in habit_completions :
        /\ r.habit_id = row.habit_id
        /\ r.completion_date = row.completion_date

\* habit_id REFERENCES public.habits(id)
HabitExists(habit_id) == \E h \in habits : h.id = habit_id

\* an insert that is not checked against the unique index
InsertCompletionError_NoUnique(uid, row) ==
    IF ~CompletionInsertPolicy(uid, row) THEN "42501"
    ELSE IF ~HabitExists(row.habit_id) THEN "23503"
    ELSE "none"

InsertCompletionError(uid, row) ==
    IF ~CompletionInsertPolicy(uid, row) THEN "42501"
    ELSE IF UniqueDailyViolated(row) THEN "23505"
    ELSE IF ~HabitExists(row.habit_id) THEN "23503"
    ELSE "none"

\* policy "Users can create their own habits"
HabitInsertPolicy(uid, row) == uid = row.user_id

\* no UNIQUE(user_id, name) on habits
UniqueNameViolated_None(row) == FALSE

\* UNIQUE(user_id, name) of public.habits
UniqueNameViolated(row) ==
    \E h \in habits : h.user_id = row.user_id /\ h.name = row.name

InsertHabitError(uid, row) ==
    IF ~HabitInsertPolicy(uid, row) THEN "42501"
    ELSE IF UniqueNameViolated(row) THEN "23505"
    ELSE "none"

\* policy "Users can update their own habits"
HabitUpdatePolicy(uid, h) == uid = h.user_id

\* an update of row old of habits to row new
UpdateHabitError(uid, old, new) ==
    IF ~HabitUpdatePolicy(uid, new) THEN "42501"
    ELSE IF \E h \in habits \ {old} :
                h.user_id = new.user_id /\ h.name = new.name THEN "23505"
    ELSE "none"

\* policy "Users can delete their own habits"
HabitDeletePolicy(uid, h) == uid = h.user_id

\* a foreign key without ON DELETE CASCADE whose rows stay behind
CascadeDelete_None(habit_id) == habit_completions

\* ON DELETE CASCADE of habit_completions.habit_id
CascadeDelete(habit_id) == {r \in habit_completions : r.habit_id # habit_id}

\* policy "Users can update their own completions"
CompletionUpdatePolicy(uid, r) == uid = r.user_id

\* policy "Users can delete their own completions"
CompletionDeletePolicy(uid, r) == uid = r.user_id

\* an update of row old of habit_completions to row new
UpdateCompletionError(uid, old, new) ==
    IF ~CompletionUpdatePolicy(uid, old) \/ ~CompletionUpdatePolicy(uid, new)
    THEN "42501"
    ELSE IF \E r \in habit_completions \ {old} :
                /\ r.habit_id = new.habit_id
                /\ r.completion_date = new.completion_date THEN "23505"
    ELSE IF ~HabitExists(new.habit_id) THEN "23503"
    ELSE "none"

\* policy "Users can view their own completions"
CompletionSelectPolicy(uid, r) == uid = r.user_id

\* policy "Users can view their own habits"
HabitSelectPolicy(uid, h) == uid = h.user_id

\* the query of fetchHabits as user uid: the active habits of uid, each
\* with the completions the caller may see
FetchResult(uid) ==
    {[id |-> h.id,
      frequency |-> h.frequency,
      created_at |-> h.created_at,
      habit_completions |->
          {[id |-> r.id, completion_date |-> r.completion_date] :
              r \in {q \in habit_completions :
                        /\ q.habit_id = h.id
                        /\ CompletionSelectPolicy(uid, q)}}] :
        h \in {g \in habits : /\ HabitSelectPolicy(uid, g)
                              /\ g.user_id = uid
                              /\ g.is_active}}

\* policy "Users can view all follows"
FollowSelectPolicy(uid, row) == TRUE

\* policy "Users can create their own follows"
FollowInsertPolicy(uid, row) == uid = row.follower_id

\* policy "Users can delete their own follows"
FollowDeletePolicy(uid, row) == uid = row.follower_id

\* CHECK (follower_id != following_id) is violated
SelfFollow(row) == row.follower_id = row.following_id

\* no UNIQUE(follower_id, following_id) on follows
UniqueFollowViolated_None(row) == FALSE

\* UNIQUE(follower_id, following_id) of public.follows: the pair is taken
UniqueFollowViolated(row) ==
    \E r \in follows : /\ r.follower_id = row.follower_id
                       /\ r.following_id = row.following_id

InsertFollowError(uid, row) ==
    IF ~FollowInsertPolicy(uid, row) THEN "42501"
    ELSE IF SelfFollow(row) THEN "23514"
    ELSE IF UniqueFollowViolated(row) THEN "23505"
    ELSE "none"

\* the query of fetchFriendsActivity for the followed users, as user uid
FollowingIds(uid) ==
    {r.following_id : r \in {q \in follows : /\ FollowSelectPolicy(uid, q)
                                              /\ q.follower_id = uid}}

\* .order('completed_at', { ascending: false }).limit(n): the n rows
\* inserted last (completed_at is the time of the insert, so ids are in
\* its order)
RECURSIVE MostRecent(_, _)
MostRecent(rows, n) ==
    IF n = 0 \/ rows = {} THEN {}
    ELSE LET latest == CHOOSE r \in rows : \A q \in rows : q.id <= r.id
         IN  {latest} \cup MostRecent(rows \ {latest}, n - 1)

\* the activity fetchFriendsActivity builds, as user uid, from the
\* completions of followingIds and the habits it may see
ActivityResult(uid, followingIds) ==
    {[id |-> r.id,
      completion_date |-> r.completion_date,
      user_id |-> r.user_id,
      habit_name |->
          IF \E h \in habits : h.id = r.habit_id /\ HabitSelectPolicy(uid, h)
          THEN (CHOOSE h \in habits : h.id = r.habit_id).name
          ELSE "Unknown"] :
        r \in MostRecent({q \in habit_completions :
                             /\ CompletionSelectPolicy(uid, q)
                             /\ q.user_id \in followingIds}, FeedLimit)}

----------------------------------------------------------------------------
\* the Friends page and its table before anyone used them
FriendsInitial ==
    /\ follows = {}
    /\ nextFollowId = 1
    /\ followCalls = {}
    /\ nextFollowCall = 1
    /\ feedFollowing = [t \in FriendTabs |-> {}]
    /\ friendsActivity = [t \in FriendTabs |-> {}]
    /\ friendsToast = [t \in FriendTabs |-> "none"]

----------------------------------------------------------------------------
(* Initial state: the schema just migrated (no rows), every Dashboard tab  *)
(* just mounted (its first fetchHabits in flight), every form empty.       *)

Init ==
    /\ now = 0
    /\ habits = {}
    /\ habit_completions = {}
    /\ nextHabitId = 1
    /\ nextCompletionId = 1
    /\ rawOps = 0
    /\ tz = ClientTz
    /\ habitsState = [c \in Clients |-> {}]
    /\ loading = [c \in Clients |-> TRUE]
    /\ completingHabit = [c \in Clients |-> NoHabit]
    /\ fetchPending = [c \in Clients |-> TRUE]
    /\ view = [c \in Clients |-> {}]
    /\ toast = [c \in Clients |-> "none"]
    /\ lastError = [c \in Clients |-> "none"]
    /\ calls = {}
    /\ nextCall = 1
    /\ formPending = [f \in Forms |-> NoForm]
    /\ formError = [f \in Forms |-> "none"]
    /\ FriendsInitial

----------------------------------------------------------------------------
(* The clock *)

Tick ==
    /\ now < MaxNow
    /\ now' = now + 1
    /\ UNCHANGED <<dbVars, tz, dashVars, formVars,
                   friendVars>>

----------------------------------------------------------------------------
(* Dashboard *)

\* fetchHabits: the query's result becomes the tab's `habits`, and the
\* component renders again
FetchHabits(c) ==
    /\ fetchPending[c]
    /\ habitsState' = [habitsState EXCEPT ![c] = FetchResult(ClientUser[c])]
    /\ loading' = [loading EXCEPT ![c] = FALSE]
    /\ fetchPending' = [fetchPending EXCEPT ![c] = FALSE]
    /\ view' = [view EXCEPT ![c] = Render(habitsState'[c], now, tz[c])]
    /\ UNCHANGED <<now, dbVars, tz, completingHabit, toast, lastError, calls,
                   nextCall, formVars,
                   friendVars>>

\* the "Mark as Complete" button of habit habitId is rendered and enabled
ButtonEnabled(c, habitId) ==
    /\ ~loading[c]
    /\ \E card \in view[c] : card.id = habitId /\ ~card.isCompleted
    /\ completingHabit[c] # habitId

\* the frequency the button passes to completeHabit
CardFrequency(c, habitId) ==
    (CHOOSE card \in view[c] : card.id = habitId).frequency

\* completeHabit up to its early return: the habit is already completed in
\* the tab's own `habits`
CompleteHabitAlready(c, habitId) ==
    /\ ButtonEnabled(c, habitId)
    /\ IsCompletedCheck(habitsState[c], habitId, CardFrequency(c, habitId),
                        now, tz[c])
    /\ toast' = [toast EXCEPT ![c] = "Already completed"]
    /\ lastError' = [lastError EXCEPT ![c] = "none"]
    /\ completingHabit' = [completingHabit EXCEPT ![c] = NoHabit]
    /\ view' = [view EXCEPT ![c] = Render(habitsState[c], now, tz[c])]
    /\ UNCHANGED <<now, dbVars, tz, habitsState, loading, fetchPending, calls,
                   nextCall, formVars,
                   friendVars>>

\* completeHabit up to its await: the insert is sent.  The invocation is
\* recorded in calls as [id, client, habit_id, completion_date, status];
\* its field rivals is history: the invocations for the same habit and date
\* that were awaiting their insert at some moment when this one was too.
CompleteHabitSend(c, habitId) ==
    /\ nextCall <= MaxCalls
    /\ ButtonEnabled(c, habitId)
    /\ ~IsCompletedCheck(habitsState[c], habitId, CardFrequency(c, habitId),
                         now, tz[c])
    /\ LET today == UTCDate(now)
           rivals == {k \in calls : /\ k.status = "pending"
                                    /\ k.habit_id = habitId
                                    /\ k.completion_date = today}
       IN  calls' = {IF k \in rivals
                     THEN [k EXCEPT !.rivals = @ \cup {nextCall}]
                     ELSE k : k \in calls}
                    \cup {[id |-> nextCall,
                           client |-> c,
                           habit_id |-> habitId,
                           completion_date |-> today,
                           status |-> "pending",
                           rivals |-> {k.id : k \in rivals}]}
    /\ nextCall' = nextCall + 1
    /\ completingHabit' = [completingHabit EXCEPT ![c] = habitId]
    /\ view' = [view EXCEPT ![c] = Render(habitsState[c], now, tz[c])]
    /\ UNCHANGED <<now, dbVars, tz, habitsState, loading, fetchPending, toast,
                   lastError, formVars,
                   friendVars>>

\* invocation k is over with the given status: it is kept (for the record of
\* which invocations overlapped) only if it overlapped another
Finished(k, status) ==
    IF k.rivals = {}
    THEN calls \ {k}
    ELSE (calls \ {k}) \cup {[k EXCEPT !.status = status]}

\* the row completeHabit inserts for invocation k
CallRow(k) ==
    [id |-> nextCompletionId,
     habit_id |-> k.habit_id,
     user_id |-> ClientUser[k.client],
     completion_date |-> k.completion_date]

\* the insert of invocation k succeeds: toast, fetchHabits(), finally
CompleteHabitInserted(k) ==
    /\ k.status = "pending"
    /\ InsertCompletionError(ClientUser[k.client], CallRow(k)) = "none"
    /\ habit_completions' = habit_completions \cup {CallRow(k)}
    /\ nextCompletionId' = nextCompletionId + 1
    /\ calls' = Finished(k, "ok")
    /\ toast' = [toast EXCEPT ![k.client] = "Great job!"]
    /\ lastError' = [lastError EXCEPT ![k.client] = "none"]
    /\ fetchPending' = [fetchPending EXCEPT ![k.client] = TRUE]
    /\ completingHabit' = [completingHabit EXCEPT ![k.client] = NoHabit]
    /\ view' = [view EXCEPT ![k.client] =
                   Render(habitsState[k.client], now, tz[k.client])]
    /\ UNCHANGED <<now, habits, nextHabitId, rawOps, tz, habitsState, loading,
                   nextCall, formVars,
                   friendVars>>

\* the insert of invocation k returns an error: catch, finally
CompleteHabitFailed(k) ==
    /\ k.status = "pending"
    /\ InsertCompletionError(ClientUser[k.client], CallRow(k)) # "none"
    /\ calls' = Finished(k, InsertCompletionError(ClientUser[k.client],
                                                   CallRow(k)))
    /\ toast' = [toast EXCEPT ![k.client] = "Error"]
    /\ lastError' = [lastError EXCEPT ![k.client] =
                        InsertCompletionError(ClientUser[k.client], CallRow(k))]
    /\ completingHabit' = [completingHabit EXCEPT ![k.client] = NoHabit]
    /\ view' = [view EXCEPT ![k.client] =
                   Render(habitsState[k.client], now, tz[k.client])]
    /\ UNCHANGED <<now, dbVars, tz, habitsState, loading, fetchPending,
                   nextCall, formVars,
                   friendVars>>

----------------------------------------------------------------------------
(* CreateHabit: onSubmit of a new habit *)

\* the duplicate-name query of onSubmit finds an active habit of that name
ExistingHabit(uid, name) ==
    \E h \in habits : /\ HabitSelectPolicy(uid, h)
                      /\ h.user_id = uid
                      /\ h.name = name
                      /\ h.is_active

\* onSubmit up to its early return
OnSubmitDuplicate(f, name, frequency) ==
    /\ formPending[f] = NoForm
    /\ ExistingHabit(FormUser[f], name)
    /\ formError' = [formError EXCEPT ![f] = "none"]
    /\ UNCHANGED <<now, dbVars, tz, dashVars, formPending,
                   friendVars>>

\* onSubmit up to its second await: the insert is sent
OnSubmitSend(f, name, frequency) ==
    /\ nextHabitId <= MaxHabits
    /\ formPending[f] = NoForm
    /\ ~ExistingHabit(FormUser[f], name)
    /\ formPending' = [formPending EXCEPT ![f] =
                          [name |-> name, frequency |-> frequency]]
    /\ UNCHANGED <<now, dbVars, tz, dashVars, formError,
                   friendVars>>

\* the row onSubmit inserts
FormRow(f) ==
    [id |-> nextHabitId,
     user_id |-> FormUser[f],
     name |-> formPending[f].name,
     frequency |-> formPending[f].frequency,
     is_active |-> TRUE,
     created_at |-> now]

OnSubmitInserted(f) ==
    /\ formPending[f] # NoForm
    /\ InsertHabitError(FormUser[f], FormRow(f)) = "none"
    /\ habits' = habits \cup {FormRow(f)}
    /\ nextHabitId' = nextHabitId + 1
    /\ formPending' = [formPending EXCEPT ![f] = NoForm]
    /\ formError' = [formError EXCEPT ![f] = "none"]
    /\ UNCHANGED <<now, habit_completions, nextCompletionId, rawOps, tz,
                   dashVars,
                   friendVars>>

OnSubmitFailed(f) ==
    /\ formPending[f] # NoForm
    /\ InsertHabitError(FormUser[f], FormRow(f)) # "none"
    /\ formPending' = [formPending EXCEPT ![f] = NoForm]
    /\ formError' = [formError EXCEPT ![f] =
                        InsertHabitError(FormUser[f], FormRow(f))]
    /\ UNCHANGED <<now, dbVars, tz, dashVars,
                   friendVars>>

\* onSubmit of the edit page of habit id: the update changes the habit
OnSubmitEditUpdated(f, id, name, frequency) ==
    /\ formPending[f] = NoForm
    /\ \E h \in habits :
           /\ h.id = id
           /\ h.user_id = FormUser[f]
           /\ HabitUpdatePolicy(FormUser[f], h)
           /\ LET row == [h EXCEPT !.name = name, !.frequency = frequency]
              IN  /\ UpdateHabitError(FormUser[f], h, row) = "none"
                  /\ habits' = (habits \ {h}) \cup {row}
    /\ formError' = [formError EXCEPT ![f] = "none"]
    /\ UNCHANGED <<now, habit_completions, nextHabitId, nextCompletionId,
                   rawOps, tz, dashVars, formPending,
                   friendVars>>

\* onSubmit of the edit page of habit id: the update returns an error
OnSubmitEditFailed(f, id, name, frequency) ==
    /\ formPending[f] = NoForm
    /\ \E h \in habits :
           /\ h.id = id
           /\ h.user_id = FormUser[f]
           /\ HabitUpdatePolicy(FormUser[f], h)
           /\ LET row == [h EXCEPT !.name = name, !.frequency = frequency]
              IN  /\ UpdateHabitError(FormUser[f], h, row) # "none"
                  /\ formError' = [formError EXCEPT ![f] =
                         UpdateHabitError(FormUser[f], h, row)]
    /\ UNCHANGED <<now, dbVars, tz, dashVars, formPending,
                   friendVars>>

----------------------------------------------------------------------------
(* Friends: the activity feed, followUser and unfollowUser.  A tab has at  *)
(* most one fetchFriendsActivity in flight; it starts one on mount and     *)
(* after every follow and unfollow.                                        *)

\* fetchFriendsActivity up to its second await: the followed users are read
FetchActivityFollowing(t) ==
    /\ feedFollowing[t] = {}
    /\ IF FollowingIds(TabUser[t]) = {}
       THEN /\ friendsActivity' = [friendsActivity EXCEPT ![t] = {}]
            /\ UNCHANGED feedFollowing
       ELSE /\ feedFollowing' = [feedFollowing EXCEPT ![t] =
                                     FollowingIds(TabUser[t])]
            /\ UNCHANGED friendsActivity
    /\ UNCHANGED <<now, dbVars, tz, dashVars, formVars, follows, nextFollowId,
                   followCalls, nextFollowCall, friendsToast>>

\* fetchFriendsActivity from its second await on: the completions and their
\* habits are read and the activity is stored
FetchActivityCompletions(t) ==
    /\ feedFollowing[t] # {}
    /\ friendsActivity' = [friendsActivity EXCEPT ![t] =
                               ActivityResult(TabUser[t], feedFollowing[t])]
    /\ feedFollowing' = [feedFollowing EXCEPT ![t] = {}]
    /\ UNCHANGED <<now, dbVars, tz, dashVars, formVars, follows, nextFollowId,
                   followCalls, nextFollowCall, friendsToast>>

\* the already-following query of followUser finds a row
ExistingFollow(uid, userId) ==
    \E r \in follows : /\ FollowSelectPolicy(uid, r)
                       /\ r.follower_id = uid
                       /\ r.following_id = userId

\* followUser up to its early return
FollowUserAlready(t, userId) ==
    /\ ExistingFollow(TabUser[t], userId)
    /\ friendsToast' = [friendsToast EXCEPT ![t] = "Already following"]
    /\ UNCHANGED <<now, dbVars, tz, dashVars, formVars, follows, nextFollowId,
                   followCalls, nextFollowCall, feedFollowing, friendsActivity>>

\* followUser up to its second await: the insert is sent
FollowUserSend(t, userId) ==
    /\ nextFollowCall <= MaxFollowCalls
    /\ ~ExistingFollow(TabUser[t], userId)
    /\ followCalls' = followCalls \cup {[id |-> nextFollowCall,
                                         tab |-> t,
                                         following_id |-> userId]}
    /\ nextFollowCall' = nextFollowCall + 1
    /\ UNCHANGED <<now, dbVars, tz, dashVars, formVars, follows, nextFollowId,
                   feedFollowing, friendsActivity, friendsToast>>

\* the row followUser inserts for invocation k
FollowRow(k) ==
    [id |-> nextFollowId,
     follower_id |-> TabUser[k.tab],
     following_id |-> k.following_id]

\* the insert of invocation k succeeds
FollowUserInserted(k) ==
    /\ InsertFollowError(TabUser[k.tab], FollowRow(k)) = "none"
    /\ follows' = follows \cup {FollowRow(k)}
    /\ nextFollowId' = nextFollowId + 1
    /\ followCalls' = followCalls \ {k}
    /\ friendsToast' = [friendsToast EXCEPT ![k.tab] = "Success"]
    /\ UNCHANGED <<now, dbVars, tz, dashVars, formVars, nextFollowCall,
                   feedFollowing, friendsActivity>>

\* the insert of invocation k returns an error: catch
FollowUserFailed(k) ==
    /\ InsertFollowError(TabUser[k.tab], FollowRow(k)) # "none"
    /\ followCalls' = followCalls \ {k}
    /\ friendsToast' = [friendsToast EXCEPT ![k.tab] = "Error"]
    /\ UNCHANGED <<now, dbVars, tz, dashVars, formVars, follows, nextFollowId,
                   nextFollowCall, feedFollowing, friendsActivity>>

\* unfollowUser: the delete and its toast
UnfollowUser(t, userId) ==
    /\ follows' = {r \in follows :
                      ~(/\ FollowDeletePolicy(TabUser[t], r)
                        /\ r.follower_id = TabUser[t]
                        /\ r.following_id = userId)}
    /\ friendsToast' = [friendsToast EXCEPT ![t] = "Success"]
    /\ UNCHANGED <<now, dbVars, tz, dashVars, formVars, nextFollowId,
                   followCalls, nextFollowCall, feedFollowing, friendsActivity>>

----------------------------------------------------------------------------
(* Requests made to the storage layer directly, as user uid: what the      *)
(* policies and constraints accept from any authenticated caller           *)

RawInsertCompletion(uid, habit_id, user_id, completion_date) ==
    /\ rawOps < MaxRawOps
    /\ LET row == [id |-> nextCompletionId,
                   habit_id |-> habit_id,
                   user_id |-> user_id,
                   completion_date |-> completion_date]
       IN  /\ InsertCompletionError(uid, row) = "none"
           /\ habit_completions' = habit_completions \cup {row}
    /\ nextCompletionId' = nextCompletionId + 1
    /\ rawOps' = rawOps + 1
    /\ UNCHANGED <<now, habits, nextHabitId, tz, dashVars, formVars,
                   friendVars>>

RawDeleteHabit(uid, habit_id) ==
    /\ \E h \in habits : h.id = habit_id /\ HabitDeletePolicy(uid, h)
    /\ habits' = {h \in habits : h.id # habit_id}
    /\ habit_completions' = CascadeDelete(habit_id)
    /\ UNCHANGED <<now, nextHabitId, nextCompletionId, rawOps, tz, dashVars,
                   formVars,
                   friendVars>>

\* DELETE FROM habit_completions WHERE id = r.id
RawDeleteCompletion(uid, r) ==
    /\ rawOps < MaxRawOps
    /\ r \in habit_completions
    /\ CompletionDeletePolicy(uid, r)
    /\ habit_completions' = habit_completions \ {r}
    /\ rawOps' = rawOps + 1
    /\ UNCHANGED <<now, habits, nextHabitId, nextCompletionId, tz, dashVars,
                   formVars,
                   friendVars>>

\* UPDATE habit_completions SET completion_date = ... WHERE id = r.id
RawUpdateCompletion(uid, r, completion_date) ==
    /\ rawOps < MaxRawOps
    /\ r \in habit_completions
    /\ completion_date # r.completion_date
    /\ LET row == [r EXCEPT !.completion_date = completion_date]
       IN  /\ UpdateCompletionError(uid, r, row) = "none"
           /\ habit_completions' = (habit_completions \ {r}) \cup {row}
    /\ rawOps' = rawOps + 1
    /\ UNCHANGED <<now, habits, nextHabitId, nextCompletionId, tz, dashVars,
                   formVars,
                   friendVars>>

\* INSERT INTO follows (follower_id, following_id)
RawInsertFollow(uid, follower_id, following_id) ==
    /\ rawOps < MaxRawOps
    /\ LET row == [id |-> nextFollowId,
                   follower_id |-> follower_id,
                   following_id |-> following_id]
       IN  /\ InsertFollowError(uid, row) = "none"
           /\ follows' = follows \cup {row}
    /\ nextFollowId' = nextFollowId + 1
    /\ rawOps' = rawOps + 1
    /\ UNCHANGED <<now, habits, habit_completions, nextHabitId,
                   nextCompletionId, tz, dashVars, formVars, followCalls,
                   nextFollowCall, feedFollowing, friendsActivity,
                   friendsToast>>

\* UPDATE habits SET is_active = false WHERE id = habit_id
RawDeactivateHabit(uid, habit_id) ==
    /\ rawOps < MaxRawOps
    /\ \E h \in habits :
           /\ h.id = habit_id
           /\ h.is_active
           /\ HabitUpdatePolicy(uid, h)
           /\ habits' = (habits \ {h}) \cup {[h EXCEPT !.is_active = FALSE]}
    /\ rawOps' = rawOps + 1
    /\ UNCHANGED <<now, habit_completions, nextHabitId, nextCompletionId, tz,
                   dashVars, formVars,
                   friendVars>>

----------------------------------------------------------------------------

\* With one form open no other insert can take the name between the form's
\* query and its insert, so OnSubmitFailed cannot happen here.
Next ==
    \/ Tick
    \/ \E c \in Clients : FetchHabits(c)
    \/ \E c \in Clients, h \in 1 .. MaxHabits : CompleteHabitAlready(c, h)
    \/ \E c \in Clients, h \in 1 .. MaxHabits : CompleteHabitSend(c, h)
    \/ \E k \in calls : CompleteHabitInserted(k)
    \/ \E k \in calls : CompleteHabitFailed(k)
    \/ \E f \in LedgerForms, n \in LedgerNames, q \in Frequencies :
           OnSubmitDuplicate(f, n, q)
    \/ \E f \in LedgerForms, n \in LedgerNames, q \in Frequencies :
           OnSubmitSend(f, n, q)
    \/ \E f \in LedgerForms : OnSubmitInserted(f)
    \/ \E u \in Users, h \in 1 .. MaxHabits, w \in Users, d \in Dates :
           RawInsertCompletion(u, h, w, d)
    \/ \E u \in Users, h \in 1 .. MaxHabits : RawDeleteHabit(u, h)
    \/ \E u \in Users, r \in habit_completions : RawDeleteCompletion(u, r)
    \/ \E u \in Users, r \in habit_completions, d \in Dates :
           RawUpdateCompletion(u, r, d)

Spec == Init /\ [][Next]_vars

----------------------------------------------------------------------------
(* The evaluator on its own: one Dashboard tab, "c1", in any time zone,    *)
(* holding one habit with any set of completion dates, renders it.         *)

EvalNows == {12, 13}             \* Saturday of the first week, both halves
EvalCreated == {0, 12}
EvalClient == "c1"

EvalHabit(frequency, created_at, dates) ==
    [id |-> 1,
     frequency |-> frequency,
     created_at |-> created_at,
     habit_completions |-> {[id |-> d + 1, completion_date |-> d] : d \in dates}]

EvalInit ==
    /\ now \in EvalNows
    /\ habits = {}
    /\ habit_completions = {}
    /\ nextHabitId = 1
    /\ nextCompletionId = 1
    /\ rawOps = 0
    /\ \E off \in TzOffsets : tz = [ClientTz EXCEPT ![EvalClient] = off]
    /\ \E q \in Frequencies, t \in EvalCreated, dates \in SUBSET (0 .. MaxEvalDate) :
           habitsState = [c \in Clients |->
               IF c = EvalClient THEN {EvalHabit(q, t, dates)} ELSE {}]
    /\ loading = [c \in Clients |-> c # EvalClient]
    /\ completingHabit = [c \in Clients |-> NoHabit]
    /\ fetchPending = [c \in Clients |-> c # EvalClient]
    /\ view = [c \in Clients |-> {}]
    /\ toast = [c \in Clients |-> "none"]
    /\ lastError = [c \in Clients |-> "none"]
    /\ calls = {}
    /\ nextCall = 1
    /\ formPending = [f \in Forms |-> NoForm]
    /\ formError = [f \in Forms |-> "none"]
    /\ FriendsInitial

\* the component function of Dashboard runs
RenderDashboard(c) ==
    /\ ~loading[c]
    /\ view' = [view EXCEPT ![c] = Render(habitsState[c], now, tz[c])]
    /\ UNCHANGED <<now, dbVars, tz, habitsState, loading, completingHabit,
                   fetchPending, toast, lastError, calls, nextCall, formVars,
                   friendVars>>

EvalNext == RenderDashboard(EvalClient)

EvalSpec == EvalInit /\ [][EvalNext]_vars

----------------------------------------------------------------------------
(* The render with the clock running: each of getStreak, getCompletionRate *)
(* and isHabitCompletedToday calls new Date() for itself, and the clock    *)
(* may advance by up to MaxRenderTicks between the first call and the      *)
(* last.  The tab holds one habit.                                         *)

MaxRenderTicks == 1
MaxSkewNow == 14     \* the clock runs up to MaxSkewNow here

\* one card, its three values computed at the instants t1 <= t2 <= t3
RenderCardAt(habit, t1, t2, t3, off) ==
    [id |-> habit.id,
     frequency |-> habit.frequency,
     streak |-> getStreak(habit, t1, off),
     completionRate |-> getCompletionRate(habit, t2),
     isCompleted |-> isHabitCompletedToday(habit, t3, off)]

\* the component function of Dashboard runs while the clock advances
RenderDashboardOverTime(c) ==
    /\ ~loading[c]
    /\ \E t2 \in now .. Min(now + MaxRenderTicks, MaxSkewNow) :
           \E t3 \in t2 .. Min(now + MaxRenderTicks, MaxSkewNow) :
               /\ view' = [view EXCEPT ![c] =
                      {RenderCardAt(habit, now, t2, t3, tz[c]) :
                          habit \in habitsState[c]}]
               /\ now' = t3
    /\ UNCHANGED <<dbVars, tz, habitsState, loading, completingHabit,
                   fetchPending, toast, lastError, calls, nextCall, formVars,
                   friendVars>>

SkewNext == RenderDashboardOverTime(EvalClient)

SkewSpec == EvalInit /\ [][SkewNext]_vars

----------------------------------------------------------------------------
(* The completion rate on its own: the tab renders one habit of any age    *)
(* (also one whose created_at is not before the clock) holding any number  *)
(* of completions up to MaxRateCompletions.                                *)

MaxRateCompletions == 24

RateNows == {80}
RateCreated == {0, 1, 64, 78, 80, 82}   \* 40, 39.5, 8, 1, 0 and -1 days ago

RateInit ==
    /\ now \in RateNows
    /\ habits = {}
    /\ habit_completions = {}
    /\ nextHabitId = 1
    /\ nextCompletionId = 1
    /\ rawOps = 0
    /\ tz = ClientTz
    /\ \E q \in Frequencies, t \in RateCreated, n \in 0 .. MaxRateCompletions :
           habitsState = [c \in Clients |->
               IF c = EvalClient THEN {EvalHabit(q, t, 1 .. n)} ELSE {}]
    /\ loading = [c \in Clients |-> c # EvalClient]
    /\ completingHabit = [c \in Clients |-> NoHabit]
    /\ fetchPending = [c \in Clients |-> c # EvalClient]
    /\ view = [c \in Clients |-> {}]
    /\ toast = [c \in Clients |-> "none"]
    /\ lastError = [c \in Clients |-> "none"]
    /\ calls = {}
    /\ nextCall = 1
    /\ formPending = [f \in Forms |-> NoForm]
    /\ formError = [f \in Forms |-> "none"]
    /\ FriendsInitial

RateSpec == RateInit /\ [][EvalNext]_vars

----------------------------------------------------------------------------
(* The habits table on its own: two CreateHabit tabs of one user, each     *)
(* creating or editing habits under any of the names, beside direct        *)
(* requests.  The user may have a habit from before, active or not.        *)

SeedHabitId == MaxHabits + 1
HabitIds == 1 .. SeedHabitId

SeedHabits ==
    {{}} \cup {{[id |-> SeedHabitId,
                 user_id |-> "u1",
                 name |-> n,
                 frequency |-> "daily",
                 is_active |-> a,
                 created_at |-> 0]} : n \in Names, a \in BOOLEAN}

FormInit ==
    /\ now = 0
    /\ habits \in SeedHabits
    /\ habit_completions = {}
    /\ nextHabitId = 1
    /\ nextCompletionId = 1
    /\ rawOps = 0
    /\ tz = ClientTz
    /\ habitsState = [c \in Clients |-> {}]
    /\ loading = [c \in Clients |-> TRUE]
    /\ completingHabit = [c \in Clients |-> NoHabit]
    /\ fetchPending = [c \in Clients |-> TRUE]
    /\ view = [c \in Clients |-> {}]
    /\ toast = [c \in Clients |-> "none"]
    /\ lastError = [c \in Clients |-> "none"]
    /\ calls = {}
    /\ nextCall = 1
    /\ formPending = [f \in Forms |-> NoForm]
    /\ formError = [f \in Forms |-> "none"]
    /\ FriendsInitial

FormNext ==
    \/ \E f \in Forms, n \in Names, q \in Frequencies :
           OnSubmitDuplicate(f, n, q)
    \/ \E f \in Forms, n \in Names, q \in Frequencies : OnSubmitSend(f, n, q)
    \/ \E f \in Forms : OnSubmitInserted(f)
    \/ \E f \in Forms : OnSubmitFailed(f)
    \/ \E f \in Forms, h \in HabitIds, n \in Names, q \in Frequencies :
           OnSubmitEditUpdated(f, h, n, q)
    \/ \E f \in Forms, h \in HabitIds, n \in Names, q \in Frequencies :
           OnSubmitEditFailed(f, h, n, q)
    \/ \E u \in Users, h \in HabitIds : RawDeactivateHabit(u, h)
    \/ \E u \in Users, h \in HabitIds : RawDeleteHabit(u, h)

FormSpec == FormInit /\ [][FormNext]_vars

----------------------------------------------------------------------------
(* The Friends page on its own: two tabs of user "u1", who may follow and  *)
(* unfollow "u2"; "u2" owns a habit and records completions of it.         *)

FriendHabits ==
    {[id |-> SeedHabitId,
      user_id |-> "u2",
      name |-> "run",
      frequency |-> "daily",
      is_active |-> TRUE,
      created_at |-> 0]}

FriendsInit ==
    /\ now = 0
    /\ habits = FriendHabits
    /\ habit_completions = {}
    /\ nextHabitId = 1
    /\ nextCompletionId = 1
    /\ rawOps = 0
    /\ tz = ClientTz
    /\ habitsState = [c \in Clients |-> {}]
    /\ loading = [c \in Clients |-> TRUE]
    /\ completingHabit = [c \in Clients |-> NoHabit]
    /\ fetchPending = [c \in Clients |-> TRUE]
    /\ view = [c \in Clients |-> {}]
    /\ toast = [c \in Clients |-> "none"]
    /\ lastError = [c \in Clients |-> "none"]
    /\ calls = {}
    /\ nextCall = 1
    /\ formPending = [f \in Forms |-> NoForm]
    /\ formError = [f \in Forms |-> "none"]
    /\ FriendsInitial

FriendsNext ==
    \/ \E t \in FriendTabs : FetchActivityFollowing(t)
    \/ \E t \in FriendTabs : FetchActivityCompletions(t)
    \/ \E t \in FriendTabs : \E u \in Users \ {TabUser[t]} : FollowUserAlready(t, u)
    \/ \E t \in FriendTabs : \E u \in Users \ {TabUser[t]} : FollowUserSend(t, u)
    \/ \E k \in followCalls : FollowUserInserted(k)
    \/ \E k \in followCalls : FollowUserFailed(k)
    \/ \E t \in FriendTabs : \E u \in Users \ {TabUser[t]} : UnfollowUser(t, u)
    \/ \E u \in Users, v \in Users, w \in Users : RawInsertFollow(u, v, w)
    \/ \E u \in Users, h \in HabitIds, w \in Users, d \in Dates :
           RawInsertCompletion(u, h, w, d)

FriendsSpec == FriendsInit /\ [][FriendsNext]_vars

----------------------------------------------------------------------------
(* The Dashboard of a user with two habits: "u1" owns two active daily     *)
(* habits and marks them complete from two tabs, next to direct inserts.   *)

ButtonHabits ==
    {[id |-> h,
      user_id |-> "u1",
      name |-> IF h = 1 THEN "run" ELSE "read",
      frequency |-> "daily",
      is_active |-> TRUE,
      created_at |-> 0] : h \in HabitIds}

ButtonInit ==
    /\ now = 0
    /\ habits = ButtonHabits
    /\ habit_completions = {}
    /\ nextHabitId = SeedHabitId + 1
    /\ nextCompletionId = 1
    /\ rawOps = 0
    /\ tz = ClientTz
    /\ habitsState = [c \in Clients |-> {}]
    /\ loading = [c \in Clients |-> TRUE]
    /\ completingHabit = [c \in Clients |-> NoHabit]
    /\ fetchPending = [c \in Clients |-> TRUE]
    /\ view = [c \in Clients |-> {}]
    /\ toast = [c \in Clients |-> "none"]
    /\ lastError = [c \in Clients |-> "none"]
    /\ calls = {}
    /\ nextCall = 1
    /\ formPending = [f \in Forms |-> NoForm]
    /\ formError = [f \in Forms |-> "none"]
    /\ FriendsInitial

ButtonNext ==
    \/ Tick
    \/ \E c \in Clients : FetchHabits(c)
    \/ \E c \in Clients, h \in HabitIds : CompleteHabitAlready(c, h)
    \/ \E c \in Clients, h \in HabitIds : CompleteHabitSend(c, h)
    \/ \E k \in calls : CompleteHabitInserted(k)
    \/ \E k \in calls : CompleteHabitFailed(k)
    \/ \E u \in Users, h \in HabitIds, w \in Users, d \in Dates :
           RawInsertCompletion(u, h, w, d)

ButtonSpec == ButtonInit /\ [][ButtonNext]_vars

----------------------------------------------------------------------------
(* Properties of the completion ledger, checked under Spec *)

\* invocations j and k of completeHabit asked for the same habit and date and
\* both passed the already-completed check before either insert returned
Raced(j, k) == j.id # k.id /\ k.id \in j.rivals
Over(k) == k.status # "pending"

\* some row of habit_completions holds the given habit and date
HasCompletion(habit_id, completion_date) ==
    \E r \in habit_completions :
        r.habit_id = habit_id /\ r.completion_date = completion_date

\* invocation id is awaiting its insert in the given set of invocations
PendingIn(id, callSet) == \E k \in callSet : k.id = id /\ k.status = "pending"

\* C1: in every reachable state there is at most one row of
\* habit_completions per (habit_id, completion_date) pair.
C1_UniquePerHabitAndDate ==
    \A r, q \in habit_completions :
        (r.habit_id = q.habit_id /\ r.completion_date = q.completion_date)
            => r = q

\* a habit holds completions for two dates, and a completeHabit insert for
\* one of them was refused as a duplicate
C1_Witness ==
    /\ \E c \in Clients : lastError[c] = "23505"
    /\ \E r, q \in habit_completions :
           r.habit_id = q.habit_id /\ r.completion_date # q.completion_date

\* C2 as stated: of two completeHabit invocations that raced for the same
\* habit and date, exactly one insert succeeds, never both and never neither.
C2_ExactlyOneSucceeds ==
    \A j, k \in calls :
        (Raced(j, k) /\ Over(j) /\ Over(k))
            => ((j.status = "ok") # (k.status = "ok"))

\* C2 as amended: of two invocations that raced, the one whose insert arrives
\* while a row for the pair is in storage (the other invocation's row or a
\* third writer's) fails, so both succeed only if the first one's row was
\* deleted or moved to another date in between; and one fails only if, when
\* its insert arrives, the pair is in storage or the habit is gone.
C2_SecondRefusedWhileRowStored ==
    [][\A j \in calls :
          (PendingIn(j.id, calls) /\ ~PendingIn(j.id, calls') /\ j.rivals # {})
              => \A j2 \in calls' :
                     j2.id = j.id
                         => /\ HasCompletion(j.habit_id, j.completion_date)
                                   => j2.status = "23505"
                            /\ j2.status # "ok"
                                   => \/ HasCompletion(j.habit_id,
                                                       j.completion_date)
                                      \/ ~HabitExists(j.habit_id)
      ]_vars

\* two invocations raced, one inserted the row and the other was refused it
C2_Witness ==
    \E j, k \in calls :
        /\ Raced(j, k)
        /\ j.status = "ok"
        /\ k.status = "23505"
        /\ HasCompletion(j.habit_id, j.completion_date)

\* C3: whenever a completeHabit call fails because the completion for that
\* habit and date is already in storage, the toast shown is "Already
\* completed", not the generic failure.
C3_DuplicateShownAsAlreadyCompleted ==
    \A c \in Clients : lastError[c] = "23505" => toast[c] = "Already completed"

\* C4: a completeHabit insert that finds no row for its habit and date (and
\* finds the habit) succeeds and adds exactly its row; one that finds a row
\* for its habit and date fails as a duplicate and leaves the rows unchanged.
\* So the same completion recorded twice in sequence succeeds, then fails.
C4_RecordTwice ==
    [][\A k \in calls :
          (PendingIn(k.id, calls) /\ ~PendingIn(k.id, calls'))
              => IF HasCompletion(k.habit_id, k.completion_date)
                 THEN /\ habit_completions' = habit_completions
                      /\ lastError'[k.client] = "23505"
                 ELSE HabitExists(k.habit_id)
                          => /\ lastError'[k.client] = "none"
                             /\ \E r \in habit_completions' :
                                    /\ r.habit_id = k.habit_id
                                    /\ r.user_id = ClientUser[k.client]
                                    /\ r.completion_date = k.completion_date
                                    /\ r \notin habit_completions
                                    /\ habit_completions' =
                                           habit_completions \cup {r}
      ]_vars

\* one tab recorded the only completion there is, asked again before its
\* refetch arrived, and was refused as a duplicate
C4_Witness ==
    \E c \in Clients :
        /\ lastError[c] = "23505"
        /\ fetchPending[c] /\ ~loading[c]
        /\ \A d \in Clients \ {c} : loading[d]
        /\ rawOps = 0
        /\ nextCompletionId = 2
        /\ Cardinality(habit_completions) = 1

\* C5: every completion's user_id is the user_id of its habit.
C5_OwnershipMatches ==
    \A r \in habit_completions :
        \A h \in habits : h.id = r.habit_id => h.user_id = r.user_id

\* C6: every completion row references a habit row that exists.
C6_NoOrphans ==
    \A r \in habit_completions : \E h \in habits : h.id = r.habit_id

\* a habit that held a completion was deleted, its completion went with it,
\* and an insert that was in flight for it was refused afterwards
C6_Witness ==
    /\ habits = {}
    /\ nextHabitId > 1
    /\ habit_completions = {}
    /\ nextCompletionId > 1
    /\ \E c \in Clients : lastError[c] = "23503"

----------------------------------------------------------------------------
(* Properties of the evaluator, checked under EvalSpec *)

CompletionDates(habit) == {r.completion_date : r \in habit.habit_completions}

\* the calendar date of today in the browser of tab c
LocalToday(c) == LocalDay(now, tz[c])

\* the number of consecutive days, walking backward from day, that are in dates
RECURSIVE RunEndingAt(_, _)
RunEndingAt(dates, day) ==
    IF day \in dates THEN 1 + RunEndingAt(dates, day - 1) ELSE 0

\* the rendered cards of daily habits, each with the habit it was computed from
DailyCards(c) ==
    {<<card, habit>> \in view[c] \X habitsState[c] :
        card.id = habit.id /\ habit.frequency = "daily"}

\* C7: for a daily habit getStreak is the number of consecutive calendar days,
\* walking backward from today, that each have a completion.
C7_DailyStreakWalk ==
    \A c \in Clients : \A p \in DailyCards(c) :
        p[1].streak = RunEndingAt(CompletionDates(p[2]), LocalToday(c))

\* C8: for a daily habit with no completion today and a run of k >= 1
\* completed days ending yesterday, getStreak is k.
C8_GraceDay ==
    \A c \in Clients : \A p \in DailyCards(c) :
        (/\ LocalToday(c) \notin CompletionDates(p[2])
         /\ LocalToday(c) - 1 \in CompletionDates(p[2]))
            => p[1].streak = RunEndingAt(CompletionDates(p[2]), LocalToday(c) - 1)

\* the completions before today are exactly those of day -5 and day -1, and
\* none is dated after today
GapHistory(c, habit) ==
    /\ {d \in CompletionDates(habit) : d < LocalToday(c)}
           = {LocalToday(c) - 5, LocalToday(c) - 1}
    /\ \A d \in CompletionDates(habit) : d <= LocalToday(c)

C10_CompletedIffLocalToday ==
    \A c \in Clients : \A p \in DailyCards(c) :
        p[1].isCompleted <=> (LocalToday(c) \in CompletionDates(p[2]))

\* the rendered cards of weekly habits, each with the habit it was computed from
WeeklyCards(c) ==
    {<<card, habit>> \in view[c] \X habitsState[c] :
        card.id = habit.id /\ habit.frequency = "weekly"}

\* the week (Sunday to Saturday) that holds a calendar day
WeekOf(day) == day \div WeekLen

\* C11: for a weekly habit the completed predicate is true iff some completion
\* is dated within the caller's current week, Sunday and Saturday included.
C11_WeeklyCompletedIffInWeek ==
    \A c \in Clients : \A p \in WeeklyCards(c) :
        p[1].isCompleted
            <=> \E d \in CompletionDates(p[2]) : WeekOf(d) = WeekOf(LocalToday(c))

----------------------------------------------------------------------------
(* Properties of the completion rate, checked under RateSpec *)

\* every rendered card, with the habit it was computed from
Cards(c) ==
    {<<card, habit>> \in view[c] \X habitsState[c] : card.id = habit.id}

\* the days elapsed since the habit was created, rounded up
ElapsedDays(habit) == CeilDiv(now - habit.created_at, DayMs)

\* the expected number of completions of the habit
Expected(habit) ==
    IF habit.frequency = "daily" THEN ElapsedDays(habit)
    ELSE CeilDiv(ElapsedDays(habit), WeekLen)

\* round(100 * n / m), a half rounded upward
RoundedPercentage(n, m) == (200 * n + m) \div (2 * m)

\* C12: getCompletionRate is min(100, round(100 * n / max(e, 1))), n the
\* number of completions and e the expected number, for every n and every
\* elapsed time, zero and negative ones included.
C12_RateFormula ==
    \A c \in Clients : \A p \in Cards(c) :
        p[1].completionRate =
            Min(100, RoundedPercentage(Cardinality(p[2].habit_completions),
                                       Max(Expected(p[2]), 1)))

\* the habit with one of its completions taken away
Without(habit, r) == [habit EXCEPT !.habit_completions = @ \ {r}]

\* the habit was created exactly one day before the clock and holds five
\* completions
OneDayFiveCompletions(habit) ==
    /\ now - habit.created_at = DayMs
    /\ Cardinality(habit.habit_completions) = 5

\* C13: the rate is an integer in 0..100, it does not decrease when a
\* completion is added with the clock and the habit otherwise the same, and
\* a habit created one day ago that holds five completions has rate 100.
C13_RateMonotoneAndBounded ==
    \A c \in Clients : \A p \in Cards(c) :
        /\ p[1].completionRate \in 0 .. 100
        /\ \A r \in p[2].habit_completions :
               getCompletionRate(Without(p[2], r), now) <= p[1].completionRate
        /\ OneDayFiveCompletions(p[2]) => p[1].completionRate = 100

\* a card was rendered for a habit created one day ago that holds five
\* completions: it shows 100, as it would with four completions
C13_Witness ==
    \E c \in Clients : \E p \in Cards(c) :
        /\ OneDayFiveCompletions(p[2])
        /\ p[1].completionRate = 100
        /\ \A r \in p[2].habit_completions :
               getCompletionRate(Without(p[2], r), now) = 100

----------------------------------------------------------------------------
(* Properties of the evaluator as a whole, checked under EvalSpec *)

\* C14: with an empty completion list getStreak and getCompletionRate return
\* 0 for either frequency, and for every habit and completion list the
\* streak, the rate and the completed predicate each return a value: a
\* count, a percentage, a boolean.
C14_EmptyHistoryAndTotal ==
    \A c \in Clients : \A p \in Cards(c) :
        /\ p[2].habit_completions = {}
               => p[1].streak = 0 /\ p[1].completionRate = 0
        /\ p[1].streak \in 0 .. Cardinality(p[2].habit_completions)
        /\ p[1].completionRate \in 0 .. 100
        /\ p[1].isCompleted \in BOOLEAN

\* a weekly habit without completions was rendered: streak 0, rate 0, not
\* completed
C14_Witness ==
    \E c \in Clients : \E p \in Cards(c) :
        /\ p[2].frequency = "weekly"
        /\ p[2].habit_completions = {}
        /\ p[1].streak = 0
        /\ p[1].completionRate = 0
        /\ ~p[1].isCompleted

----------------------------------------------------------------------------
(* Properties of the habits table, checked under FormSpec *)

\* C15: no two active habits of one user share a name, whatever creates and
\* edits were submitted and however they interleaved.
C15_ActiveNamesUnique ==
    \A h, g \in habits :
        (/\ h.user_id = g.user_id
         /\ h.name = g.name
         /\ h.is_active /\ g.is_active) => h = g

\* the user has two active habits; one form's create is in flight for a
\* name that was free when the form checked and has been taken since, and
\* the other form was refused a name in use
C15_Witness ==
    /\ \E f, g \in Forms :
           /\ f # g
           /\ formPending[f] # NoForm
           /\ ExistingHabit(FormUser[f], formPending[f].name)
           /\ formError[g] = "23505"
    /\ \E h, g \in habits : /\ h # g
                            /\ h.user_id = g.user_id
                            /\ h.is_active /\ g.is_active

\* C20: a create submitted under a name that no active habit of the owner
\* holds inserts a new habit row, also when an inactive habit of the owner
\* holds the name.
C20_CreateSucceedsWithoutActiveName ==
    [][\A f \in Forms :
          (/\ formPending[f] # NoForm
           /\ formPending'[f] = NoForm
           /\ ~ExistingHabit(FormUser[f], formPending[f].name))
              => \E h \in habits' \ habits :
                     /\ h.user_id = FormUser[f]
                     /\ h.name = formPending[f].name
                     /\ h.is_active
      ]_vars

----------------------------------------------------------------------------
(* Properties of weekly habits and of stored completions, checked under    *)
(* Spec                                                                    *)

\* the habit of that id is a weekly one
IsWeekly(habit_id) ==
    \E h \in habits : h.id = habit_id /\ h.frequency = "weekly"

\* some completion of the habit is dated in the week of the given date
HasCompletionInWeek(habit_id, completion_date) ==
    \E r \in habit_completions :
        /\ r.habit_id = habit_id
        /\ WeekOf(r.completion_date) = WeekOf(completion_date)

\* C16: a completeHabit insert for a weekly habit that arrives when the week
\* of its date already holds a completion of that habit is refused as a
\* duplicate and adds no row, whichever tab sends it and however old that
\* tab's habits are.
C16_WeeklyDuplicateRejected ==
    [][\A k \in calls :
          (/\ PendingIn(k.id, calls)
           /\ ~PendingIn(k.id, calls')
           /\ IsWeekly(k.habit_id)
           /\ HasCompletionInWeek(k.habit_id, k.completion_date))
              => /\ habit_completions' = habit_completions
                 /\ lastError'[k.client] = "23505"
      ]_vars

\* C17: a row of habit_completions stays as it is from one state to the
\* next, unless its habit is deleted in that step.
C17_CompletionsImmutable ==
    [][\A r \in habit_completions :
          \/ r \in habit_completions'
          \/ /\ HabitExists(r.habit_id)
             /\ ~\E h \in habits' : h.id = r.habit_id
      ]_vars

----------------------------------------------------------------------------
(* Properties of the weekly streak, checked under EvalSpec *)

\* the weeks that hold a completion of the habit
CompletionWeeks(habit) == {WeekOf(d) : d \in CompletionDates(habit)}

\* C18: for a weekly habit getStreak is the number of consecutive weeks,
\* walking backward from the current week, that each hold a completion.
C18_WeeklyStreakWalk ==
    \A c \in Clients : \A p \in WeeklyCards(c) :
        p[1].streak = RunEndingAt(CompletionWeeks(p[2]), WeekOf(LocalToday(c)))

----------------------------------------------------------------------------
(* Properties of one render, checked under SkewSpec *)

\* C19: the streak, the rate and the completed predicate of a rendered card
\* are the values of one and the same instant of the render.
C19_OneInstantPerRender ==
    \A c \in Clients : \A p \in Cards(c) :
        \E t \in now - MaxRenderTicks .. now :
            p[1] = RenderCard(p[2], t, tz[c])

----------------------------------------------------------------------------
(* Properties of the Friends page, checked under FriendsSpec *)

\* the completions of the users in ids that are among the FeedLimit most
\* recent ones of those users
RecentCompletionsOf(ids) ==
    MostRecent({q \in habit_completions : q.user_id \in ids}, FeedLimit)

\* C21: when a fetchFriendsActivity of a user finishes, every completion
\* recorded by a user they follow that is among the 50 most recent ones of
\* the followed users is in the activity it stores.
C21_FollowedCompletionsInFeed ==
    [][\A t \in FriendTabs :
          (feedFollowing[t] # {} /\ feedFollowing'[t] = {}) =>
              \A r \in RecentCompletionsOf(feedFollowing[t]
                                            \cap FollowingIds(TabUser[t])) :
                  \E a \in friendsActivity'[t] : a.id = r.id]_vars

----------------------------------------------------------------------------
(* Properties of the Mark-as-Complete button, checked under ButtonSpec *)

\* C22: while a completeHabit invocation of a tab for habit h awaits its
\* insert, completingHabit of that tab is h, so the button of h in that tab
\* is disabled.
C22_ButtonDisabledWhileInFlight ==
    \A k \in calls :
        k.status = "pending" =>
            /\ completingHabit[k.client] = k.habit_id
            /\ ~ButtonEnabled(k.client, k.habit_id)

----------------------------------------------------------------------------
(* Interference between users, checked under Spec *)

\* the habit of invocation k is stored and belongs to the invoking user
OwnHabitStored(k) ==
    \E h \in habits : h.id = k.habit_id /\ h.user_id = ClientUser[k.client]

\* the invoking user of k has a row for k's habit and date
OwnRowStored(k) ==
    \E r \in habit_completions :
        /\ r.habit_id = k.habit_id
        /\ r.completion_date = k.completion_date
        /\ r.user_id = ClientUser[k.client]

\* C23: when a completeHabit invocation of the owner of a stored habit
\* ends and the owner has no row for that habit and date, it ends without
\* an error, whatever other users have done.
C23_OwnerUnaffectedByOthers ==
    [][\A k \in calls :
          (/\ k.status = "pending"
           /\ ~PendingIn(k.id, calls')
           /\ OwnHabitStored(k)
           /\ ~OwnRowStored(k)) =>
              lastError'[k.client] = "none"]_vars

----------------------------------------------------------------------------
(* Completed-today against the streak, checked under EvalSpec *)

\* C24: every rendered card of a daily habit that shows the habit as
\* completed today shows a streak of at least 1, whatever dates its
\* completion list holds.
C24_CompletedImpliesStreak ==
    \A c \in Clients : \A p \in DailyCards(c) :
        p[1].isCompleted => p[1].streak >= 1

----------------------------------------------------------------------------
(* Properties of the follows table, checked under FriendsSpec *)

SamePair(r, q) ==
    r.follower_id = q.follower_id /\ r.following_id = q.following_id

NoSelfFollow == \A r \in follows : r.follower_id # r.following_id

OneRowPerPair == \A r, q \in follows : SamePair(r, q) => r = q

\* a followUser invocation that ends while its pair is stored, and any
\* other step, adds no row for a pair that is stored
ExistingPairAddsNoRow ==
    /\ \A k \in followCalls :
           (k \notin followCalls' /\ ExistingFollow(TabUser[k.tab],
                                                   k.following_id)) =>
               follows' = follows
    /\ \A r \in follows' \ follows : \A q \in follows : ~SamePair(r, q)

\* C25: in every reachable state of the follows table no user follows
\* themself and there is at most one row per ordered (follower, following)
\* pair, under every interleaving of followUser and unfollowUser; a
\* followUser for a pair that is stored adds no row.
C25_FollowsWellFormed ==
    /\ [](NoSelfFollow /\ OneRowPerPair)
    /\ [][ExistingPairAddsNoRow]_vars

\* two followUser invocations passed the already-following check together;
\* one inserted the row and the other was refused
C25_Witness ==
    /\ followCalls = {}
    /\ rawOps = 0
    /\ friendsToast["t1"] = "Success"
    /\ friendsToast["t2"] = "Error"
    /\ Cardinality(follows) = 1

====
